---- MODULE Spec2Model ----
(***************************************************************************)
(* NChainEnv (gym/envs/toy_text/nchain.py): a chain of n states walked by  *)
(* two actions, 0 = forward and 1 = backward, with a slip that executes    *)
(* the opposite action.                                                    *)
(*                                                                         *)
(* Probabilities and uniform draws are counted in quarters: slip = 1       *)
(* stands for 0.25, a draw u = 3 stands for a value in [0.75, 1.0), and    *)
(* `rand() < slip` is the integer comparison u < slip.                     *)
(***************************************************************************)
EXTENDS Integers, Sequences, FiniteSets, TLC

VARIABLES env, frame, ret, epCount, epEnded, twin, twinRet, common, synced,
          hist

vars == <<env, frame, ret, epCount, epEnded, twin, twinRet, common, synced,
          hist>>

(* ------------------------------ bounds --------------------------------- *)

MaxN == 3
MaxIters == 3
MaxSeed == 2

Lengths == 1..MaxN
Horizons == 1..MaxIters
Seeds == 0..MaxSeed
Slips == {0, 1, 2, 4}
Smalls == {1, 2}
Larges == {2, 10}
Actions == -1..2

(* --------------------- gym.utils.seeding, numpy ------------------------ *)

\* seeding.np_random(seed): a generator initialised deterministically from
\* the seed.  The generator is a full-period congruential generator on 0..7.
SeedingNpRandom(seed) == [x |-> seed % 8]

RECURSIVE Advance(_, _)

\* RandomState.rand(): advances the generator and returns a uniform draw,
\* in quarters (0..3).
Rand(rng) ==
    LET x2 == (5 * rng.x + 3) % 8
    IN  [u |-> x2 \div 2, rng |-> [x |-> x2]]

\* The generator after i draws.
Advance(rng, i) == IF i = 0 THEN rng ELSE Rand(Advance(rng, i - 1)).rng

\* spaces.Discrete(size).contains(x)
Contains(size, x) == x \in 0..(size - 1)

(* ----------------------------- __init__ -------------------------------- *)

\* Variant: the backward cell is a copy of the forward cell.
OutcomesCopied(state, action, n, slip, small, large) ==
    LET f_reward   == IF state = n - 1 THEN large ELSE 0
        next_state == IF state = n - 1 THEN state ELSE state + 1
    IN  << <<4 - slip, next_state, f_reward, "None">>,
           <<slip, 0, small, "None">> >>

\* One cell self.P[state][action] of the transition table.
Outcomes(state, action, n, slip, small, large) ==
    LET f_reward   == IF state = n - 1 THEN large ELSE 0
        next_state == IF state = n - 1 THEN state ELSE state + 1
    IN  IF action = 0
        THEN << <<4 - slip, next_state, f_reward, "None">>,
                <<slip, 0, small, "None">> >>
        ELSE << <<4 - slip, 0, small, "None">>,
                <<slip, next_state, f_reward, "None">> >>

\* Variant: the table stops one state short of the end of the chain.
BuildPShort(n, slip, small, large) ==
    [s \in 0..(n - 2) |->
        [a \in 0..1 |-> Outcomes(s, a, n, slip, small, large)]]

BuildP(n, slip, small, large) ==
    [s \in 0..(n - 1) |->
        [a \in 0..1 |-> Outcomes(s, a, n, slip, small, large)]]

\* NChainEnv(n, slip, small, large, max_iters); entropy is the seed that
\* self.seed() takes from the operating system.
Construct(n, slip, small, large, max_iters, entropy) ==
    [n |-> n, slip |-> slip, small |-> small, large |-> large,
     state |-> 0, iters |-> 0, max_iters |-> max_iters,
     P |-> BuildP(n, slip, small, large),
     np_random |-> SeedingNpRandom(entropy)]

(* ------------------------------- seed ---------------------------------- *)

\* Variant: the new generator is dropped and the old one kept.
SeedEnvKeepsGenerator(self, seed) ==
    [self |-> self,
     ret  |-> [op |-> "seed", err |-> "ok", seeds |-> <<seed>>]]

\* Variant: seeding also starts the chain over.
SeedEnvResets(self, seed) ==
    [self |-> [self EXCEPT !.np_random = SeedingNpRandom(seed), !.state = 0],
     ret  |-> [op |-> "seed", err |-> "ok", seeds |-> <<seed>>]]

SeedEnv(self, seed) ==
    [self |-> [self EXCEPT !.np_random = SeedingNpRandom(seed)],
     ret  |-> [op |-> "seed", err |-> "ok", seeds |-> <<seed>>]]

(* ------------------------------- step ---------------------------------- *)

\* Variant: the assertion is skipped.
ActionValidAny(action) == TRUE

\* assert self.action_space.contains(action)
ActionValid(action) == Contains(2, action)

\* Variant: the draw is compared with <= instead of <.
SlipActionInclusive(action, u, slip) ==
    IF u <= slip THEN (IF action # 0 THEN 0 ELSE 1) ELSE action

\* Variant: a slip always executes backward instead of the opposite action.
SlipActionToBackward(action, u, slip) ==
    IF u < slip THEN 1 ELSE action

\* if self.np_random.rand() < self.slip: action = not action
SlipAction(action, u, slip) ==
    IF u < slip THEN (IF action # 0 THEN 0 ELSE 1) ELSE action

\* Variant: forward always advances, also at the end of the chain.
MoveUnbounded(state, action, n, small, large) ==
    IF action # 0
    THEN [reward |-> small, state |-> 0]
    ELSE [reward |-> IF state < n - 1 THEN 0 ELSE large, state |-> state + 1]

\* Variant: backward moves one state back instead of to the beginning.
MoveBackOne(state, action, n, small, large) ==
    IF action # 0
    THEN [reward |-> small, state |-> IF state > 0 THEN state - 1 ELSE 0]
    ELSE IF state < n - 1
         THEN [reward |-> 0, state |-> state + 1]
         ELSE [reward |-> large, state |-> state]

\* Variant: the end of the chain is tested with <= instead of <.
MoveOffByOne(state, action, n, small, large) ==
    IF action # 0
    THEN [reward |-> small, state |-> 0]
    ELSE IF state <= n - 1
         THEN [reward |-> 0, state |-> state + 1]
         ELSE [reward |-> large, state |-> state]

\* Variant: the last state before the end already counts as the end.
MoveEarlyEnd(state, action, n, small, large) ==
    IF action # 0
    THEN [reward |-> small, state |-> 0]
    ELSE IF state < n - 2
         THEN [reward |-> 0, state |-> state + 1]
         ELSE [reward |-> large, state |-> state]

\* Variant: the end of the chain pays the large reward on top of the small.
MoveRewardSum(state, action, n, small, large) ==
    IF action # 0
    THEN [reward |-> small, state |-> 0]
    ELSE IF state < n - 1
         THEN [reward |-> 0, state |-> state + 1]
         ELSE [reward |-> large + small, state |-> state]

\* The three branches on the executed action.
Move(state, action, n, small, large) ==
    IF action # 0
    THEN [reward |-> small, state |-> 0]
    ELSE IF state < n - 1
         THEN [reward |-> 0, state |-> state + 1]
         ELSE [reward |-> large, state |-> state]

\* Variant: the counter is not put back to 0 at the end of the episode.
TickNoWrap(iters, max_iters) ==
    IF iters + 1 = max_iters
    THEN [done |-> TRUE, iters |-> iters + 1]
    ELSE [done |-> FALSE, iters |-> iters + 1]

\* done = False; self.iters += 1; if self.iters == self.max_iters: ...
Tick(iters, max_iters) ==
    IF iters + 1 = max_iters
    THEN [done |-> TRUE, iters |-> 0]
    ELSE [done |-> FALSE, iters |-> iters + 1]

\* Variant: the episode is counted by decrementing max_iters.
StepEnvCountsDown(self, action) ==
    IF ~ActionValid(action)
    THEN [self  |-> self,
          frame |-> [op |-> "step", arg |-> action],
          ret   |-> [op |-> "step", err |-> "AssertionError"]]
    ELSE LET r      == Rand(self.np_random)
             action2 == SlipAction(action, r.u, self.slip)
             m      == Move(self.state, action2, self.n, self.small, self.large)
         IN  [self  |-> [self EXCEPT !.np_random = r.rng,
                                     !.state = m.state,
                                     !.max_iters = self.max_iters - 1],
              frame |-> [op |-> "step", arg |-> action, u |-> r.u,
                         action |-> action2, state |-> self.state],
              ret   |-> [op |-> "step", err |-> "ok", obs |-> m.state,
                         reward |-> m.reward,
                         done |-> (self.max_iters - 1 = 0),
                         info |-> << >>]]

\* Variant: the draw is taken before the action is checked.
StepEnvDrawsFirst(self, action) ==
    LET r      == Rand(self.np_random)
        action2 == SlipAction(action, r.u, self.slip)
        m      == Move(self.state, action2, self.n, self.small, self.large)
        t      == Tick(self.iters, self.max_iters)
    IN  IF ~ActionValid(action)
        THEN [self  |-> [self EXCEPT !.np_random = r.rng],
              frame |-> [op |-> "step", arg |-> action],
              ret   |-> [op |-> "step", err |-> "AssertionError"]]
        ELSE [self  |-> [self EXCEPT !.np_random = r.rng,
                                     !.state = m.state,
                                     !.iters = t.iters],
              frame |-> [op |-> "step", arg |-> action, u |-> r.u,
                         action |-> action2, state |-> self.state],
              ret   |-> [op |-> "step", err |-> "ok", obs |-> m.state,
                         reward |-> m.reward, done |-> t.done,
                         info |-> << >>]]

\* frame records the call: its argument, the draw u, the executed action
\* (the local `action` after the slip) and self.state on entry.
StepEnv(self, action) ==
    IF ~ActionValid(action)
    THEN [self  |-> self,
          frame |-> [op |-> "step", arg |-> action],
          ret   |-> [op |-> "step", err |-> "AssertionError"]]
    ELSE LET r      == Rand(self.np_random)
             action2 == SlipAction(action, r.u, self.slip)
             m      == Move(self.state, action2, self.n, self.small, self.large)
             t      == Tick(self.iters, self.max_iters)
         IN  [self  |-> [self EXCEPT !.np_random = r.rng,
                                     !.state = m.state,
                                     !.iters = t.iters],
              frame |-> [op |-> "step", arg |-> action, u |-> r.u,
                         action |-> action2, state |-> self.state],
              ret   |-> [op |-> "step", err |-> "ok", obs |-> m.state,
                         reward |-> m.reward, done |-> t.done,
                         info |-> << >>]]

(* ------------------------------- reset --------------------------------- *)

\* Variant: reset() also clears the step counter.
ResetEnvZeroIters(self) ==
    [self |-> [self EXCEPT !.state = 0, !.iters = 0],
     ret  |-> [op |-> "reset", err |-> "ok", obs |-> 0]]

ResetEnv(self) ==
    [self |-> [self EXCEPT !.state = 0],
     ret  |-> [op |-> "reset", err |-> "ok", obs |-> 0]]

(* ----------------------- one environment: Spec ------------------------- *)

NoEnv == [n |-> 0]
NoRet == [op |-> "none"]
NoHist == [calls |-> 0]

Init ==
    /\ \E n \in Lengths, slip \in Slips, small \in Smalls, large \in Larges,
          max_iters \in Horizons, entropy \in Seeds :
          env = Construct(n, slip, small, large, max_iters, entropy)
    /\ frame = [op |-> "init"]
    /\ ret = [op |-> "init", err |-> "ok"]
    /\ epCount = 0
    /\ epEnded = FALSE
    /\ twin = NoEnv
    /\ twinRet = NoRet
    /\ common = FALSE
    /\ synced = TRUE
    /\ hist = NoHist

\* Bookkeeping of the episode the specification speaks of: epCount is the
\* number of valid step() calls since the episode start, epEnded says that
\* the last of them returned done.
EpisodeAfterStep(r) ==
    IF r.ret.err = "ok"
    THEN /\ epCount' = (IF epEnded THEN 0 ELSE epCount) + 1
         /\ epEnded' = r.ret.done
    ELSE UNCHANGED <<epCount, epEnded>>

Step(action) ==
    LET r == StepEnv(env, action)
    IN  /\ env' = r.self
        /\ frame' = r.frame
        /\ ret' = r.ret
        /\ EpisodeAfterStep(r)
        /\ UNCHANGED <<twin, twinRet, common, synced, hist>>

Reset ==
    LET r == ResetEnv(env)
    IN  /\ env' = r.self
        /\ frame' = [op |-> "reset"]
        /\ ret' = r.ret
        /\ epCount' = 0
        /\ epEnded' = FALSE
        /\ UNCHANGED <<twin, twinRet, common, synced, hist>>

\* seed(v) with a value, and seed() / seed(None) with a seed from entropy.
Seed(seed) ==
    LET r == SeedEnv(env, seed)
    IN  /\ env' = r.self
        /\ frame' = [op |-> "seed", arg |-> seed]
        /\ ret' = r.ret
        /\ UNCHANGED <<epCount, epEnded, twin, twinRet, common, synced, hist>>

SeedNone ==
    \E entropy \in Seeds :
        LET r == SeedEnv(env, entropy)
        IN  /\ env' = r.self
            /\ frame' = [op |-> "seed"]
            /\ ret' = r.ret
            /\ UNCHANGED <<epCount, epEnded, twin, twinRet, common, synced, hist>>

Next ==
    \/ \E action \in Actions : Step(action)
    \/ Reset
    \/ \E seed \in Seeds : Seed(seed)
    \/ SeedNone

Spec == Init /\ [][Next]_vars

(* ------------------- two runs in lockstep: SpecDet --------------------- *)

\* Two environments built with the same configuration receive the same
\* calls.  common: the generators of both were last seeded by seed(v) with
\* the same value v.  synced: every step() call so far was made while
\* common held.
InitDet ==
    /\ \E n \in Lengths, slip \in Slips, small \in Smalls, large \in Larges,
          max_iters \in Horizons, entropy \in Seeds, entropy2 \in Seeds :
          /\ env = Construct(n, slip, small, large, max_iters, entropy)
          /\ twin = Construct(n, slip, small, large, max_iters, entropy2)
    /\ frame = [op |-> "init"]
    /\ ret = [op |-> "init", err |-> "ok"]
    /\ twinRet = [op |-> "init", err |-> "ok"]
    /\ epCount = 0
    /\ epEnded = FALSE
    /\ common = FALSE
    /\ synced = TRUE
    /\ hist = NoHist

DetStep(action) ==
    LET r  == StepEnv(env, action)
        r2 == StepEnv(twin, action)
    IN  /\ env' = r.self
        /\ frame' = r.frame
        /\ ret' = r.ret
        /\ EpisodeAfterStep(r)
        /\ twin' = r2.self
        /\ twinRet' = r2.ret
        /\ synced' = (synced /\ common)
        /\ UNCHANGED <<common, hist>>

DetReset ==
    LET r  == ResetEnv(env)
        r2 == ResetEnv(twin)
    IN  /\ env' = r.self
        /\ frame' = [op |-> "reset"]
        /\ ret' = r.ret
        /\ epCount' = 0
        /\ epEnded' = FALSE
        /\ twin' = r2.self
        /\ twinRet' = r2.ret
        /\ UNCHANGED <<common, synced, hist>>

DetSeed(seed) ==
    LET r  == SeedEnv(env, seed)
        r2 == SeedEnv(twin, seed)
    IN  /\ env' = r.self
        /\ frame' = [op |-> "seed", arg |-> seed]
        /\ ret' = r.ret
        /\ twin' = r2.self
        /\ twinRet' = r2.ret
        /\ common' = TRUE
        /\ UNCHANGED <<epCount, epEnded, synced, hist>>

DetSeedNone ==
    \E entropy \in Seeds, entropy2 \in Seeds :
        LET r  == SeedEnv(env, entropy)
            r2 == SeedEnv(twin, entropy2)
        IN  /\ env' = r.self
            /\ frame' = [op |-> "seed"]
            /\ ret' = r.ret
            /\ twin' = r2.self
            /\ twinRet' = r2.ret
            /\ common' = FALSE
            /\ UNCHANGED <<epCount, epEnded, synced, hist>>

NextDet ==
    \/ \E action \in Actions : DetStep(action)
    \/ DetReset
    \/ \E seed \in Seeds : DetSeed(seed)
    \/ DetSeedNone

SpecDet == InitDet /\ [][NextDet]_vars

(* ------------------ the scenario of the spec: SpecScenario ------------- *)

ScenarioMaxN == 5
MaxForward == 6
DefaultMaxIters == 1000

\* A freshly constructed environment with slip = 0 and the default
\* max_iters is reset, then receives up to MaxForward step(0) calls and
\* one closing step(1).
InitScenario ==
    /\ \E n \in 1..ScenarioMaxN, small \in Smalls, large \in Larges,
          entropy \in Seeds :
          env = Construct(n, 0, small, large, DefaultMaxIters, entropy)
    /\ frame = [op |-> "init"]
    /\ ret = [op |-> "init", err |-> "ok"]
    /\ epCount = 0
    /\ epEnded = FALSE
    /\ twin = NoEnv
    /\ twinRet = NoRet
    /\ common = FALSE
    /\ synced = TRUE
    /\ hist = NoHist

ScenarioOpen ==
    \/ frame.op = "reset"
    \/ frame.op = "step" /\ frame.arg = 0

ScenarioReset == frame.op = "init" /\ Reset

ScenarioForward == ScenarioOpen /\ epCount < MaxForward /\ Step(0)

ScenarioBackward == ScenarioOpen /\ Step(1)

NextScenario == ScenarioReset \/ ScenarioForward \/ ScenarioBackward

SpecScenario == InitScenario /\ [][NextScenario]_vars

(* ---------------- one environment with its history: SpecCount ---------- *)

MaxCalls == 7

\* hist.calls: the number of valid step() calls since construction (at most
\* MaxCalls); hist.seed: the seed the current generator was made from, as
\* seed() returned it; hist.used: the number of valid step() calls since
\* that generator was installed.
InitCount ==
    /\ \E n \in Lengths, slip \in Slips, small \in Smalls, large \in Larges,
          max_iters \in Horizons, entropy \in Seeds :
          /\ env = Construct(n, slip, small, large, max_iters, entropy)
          /\ hist = [calls |-> 0, seed |-> entropy, used |-> 0]
    /\ frame = [op |-> "init"]
    /\ ret = [op |-> "init", err |-> "ok"]
    /\ epCount = 0
    /\ epEnded = FALSE
    /\ twin = NoEnv
    /\ twinRet = NoRet
    /\ common = FALSE
    /\ synced = TRUE

CountStep(action) ==
    LET r == StepEnv(env, action)
    IN  /\ r.ret.err = "ok" => hist.calls < MaxCalls
        /\ env' = r.self
        /\ frame' = r.frame
        /\ ret' = r.ret
        /\ EpisodeAfterStep(r)
        /\ hist' = (IF r.ret.err = "ok"
                    THEN [hist EXCEPT !.calls = @ + 1, !.used = @ + 1]
                    ELSE hist)
        /\ UNCHANGED <<twin, twinRet, common, synced>>

CountReset ==
    LET r == ResetEnv(env)
    IN  /\ env' = r.self
        /\ frame' = [op |-> "reset"]
        /\ ret' = r.ret
        /\ epCount' = 0
        /\ epEnded' = FALSE
        /\ UNCHANGED <<hist, twin, twinRet, common, synced>>

CountSeed(seed) ==
    LET r == SeedEnv(env, seed)
    IN  /\ env' = r.self
        /\ frame' = [op |-> "seed", arg |-> seed]
        /\ ret' = r.ret
        /\ hist' = [hist EXCEPT !.seed = r.ret.seeds[1], !.used = 0]
        /\ UNCHANGED <<epCount, epEnded, twin, twinRet, common, synced>>

CountSeedNone ==
    \E entropy \in Seeds :
        LET r == SeedEnv(env, entropy)
        IN  /\ env' = r.self
            /\ frame' = [op |-> "seed"]
            /\ ret' = r.ret
            /\ hist' = [hist EXCEPT !.seed = r.ret.seeds[1], !.used = 0]
            /\ UNCHANGED <<epCount, epEnded, twin, twinRet, common, synced>>

NextCount ==
    \/ \E action \in Actions : CountStep(action)
    \/ CountReset
    \/ \E seed \in Seeds : CountSeed(seed)
    \/ CountSeedNone

SpecCount == InitCount /\ [][NextCount]_vars

(* ------------------------------ properties ----------------------------- *)

StepReturned == frame.op = "step" /\ ret.err = "ok"

\* C1: after construction with n >= 1, under any calls and any draws,
\* 0 <= self.state < n, and every observation returned by step() or
\* reset() lies in the same range.
StateInRange ==
    /\ env.state \in 0..(env.n - 1)
    /\ (frame.op \in {"step", "reset"} /\ ret.err = "ok")
           => ret.obs \in 0..(env.n - 1)

\* A forward step taken at the end of a chain of at least two states.
StateInRangeWitness ==
    /\ StepReturned
    /\ env.n >= 2
    /\ frame.state = env.n - 1
    /\ frame.action = 0
    /\ env.state = env.n - 1
    /\ ret.obs = env.n - 1

\* C2: counting from an episode start (construction, reset(), or the call
\* after a step() that returned done), exactly the max_iters-th valid step()
\* returns done and leaves iters at 0, and iters never exceeds max_iters.
EpisodeEndsAtHorizon ==
    /\ StepReturned => /\ ret.done <=> (epCount = env.max_iters)
                       /\ ret.done => env.iters = 0
    /\ env.iters <= env.max_iters

\* C3: step(a) with a outside {0, 1} fails with the assertion error and
\* leaves self.state and self.iters as they were.
InvalidActionRejected ==
    [][(frame'.op = "step" /\ frame'.arg \notin {0, 1})
          => /\ ret'.err = "AssertionError"
             /\ env'.state = env.state
             /\ env'.iters = env.iters]_vars

\* step(2) was rejected in the middle of an episode, away from state 0.
InvalidActionRejectedWitness ==
    /\ frame.op = "step"
    /\ frame.arg = 2
    /\ ret.err = "AssertionError"
    /\ env.state > 0
    /\ env.iters > 0

\* C4: after any reset() call the step counter is 0.
ResetZeroesIters == frame.op = "reset" => env.iters = 0

\* C5: reset() sets self.state to 0, returns 0 and changes nothing else
\* (step counter, generator, configuration); the step counter goes back to
\* 0 only inside step().
ResetOnlyState ==
    [][/\ frame'.op = "reset"
            => /\ env' = [env EXCEPT !.state = 0]
               /\ ret'.obs = 0
       /\ (env.iters # 0 /\ env'.iters = 0) => frame'.op = "step"]_vars

\* reset() returned in the middle of an episode: the counter is still up.
ResetOnlyStateWitness ==
    /\ frame.op = "reset"
    /\ ret.obs = 0
    /\ env.state = 0
    /\ env.iters > 0

\* C6: a step() whose executed action is backward returns the small reward
\* and ends in state 0, whatever the state before.
BackwardReward ==
    (StepReturned /\ frame.action # 0)
        => /\ ret.reward = env.small
           /\ env.state = 0
           /\ ret.obs = 0

\* A forward request that slipped to backward at the end of the chain.
BackwardRewardWitness ==
    /\ StepReturned
    /\ frame.arg = 0
    /\ frame.action = 1
    /\ env.n >= 2
    /\ frame.state = env.n - 1
    /\ env.state = 0
    /\ ret.reward = env.small

\* C7: a step() made at state n-1 whose executed action is forward returns
\* the large reward and leaves the state where it was (also for n = 1).
TerminalForwardReward ==
    (StepReturned /\ frame.action = 0 /\ frame.state = env.n - 1)
        => /\ ret.reward = env.large
           /\ env.state = frame.state

\* A backward request that slipped to forward at the end of the chain.
TerminalForwardRewardWitness ==
    /\ StepReturned
    /\ frame.arg = 1
    /\ frame.action = 0
    /\ frame.state = env.n - 1
    /\ env.state = env.n - 1
    /\ ret.reward = env.large
    /\ env.large # env.small

\* C8: a step() made at a state below n-1 whose executed action is forward
\* returns reward 0 and increases the state by exactly 1.
ForwardAdvances ==
    (StepReturned /\ frame.action = 0 /\ frame.state < env.n - 1)
        => /\ ret.reward = 0
           /\ env.state = frame.state + 1
           /\ ret.obs = frame.state + 1

\* A forward step from the state just before the end of the chain.
ForwardAdvancesWitness ==
    /\ StepReturned
    /\ frame.action = 0
    /\ frame.state > 0
    /\ frame.state = env.n - 2
    /\ env.state = env.n - 1
    /\ ret.reward = 0

\* C9: every valid step() returns a reward among 0, small and large.
RewardDomain ==
    StepReturned => ret.reward \in {0, env.small, env.large}

\* The large reward was paid, in a configuration where it is neither of
\* the other two values.
RewardDomainWitness ==
    /\ StepReturned
    /\ ret.reward = env.large
    /\ env.large \notin {0, env.small}
    /\ frame.state = env.n - 1

\* C10: two runs with the same configuration, seeded with the same seed
\* before their step() calls and given the same requested actions, return
\* the same (observation, reward, done) on every step() call.
Determinism ==
    (synced /\ frame.op = "step") => ret = twinRet

\* Both runs slipped at the same call and ended their episode together,
\* with a slip probability strictly between 0 and 1.
DeterminismWitness ==
    /\ synced
    /\ StepReturned
    /\ env.slip \in {1, 2}
    /\ frame.action # frame.arg
    /\ ret.done
    /\ env.max_iters >= 2
    /\ twinRet = ret
    /\ twin.state = env.state

\* C11: the transition table agrees with step(): for every state s and
\* requested action a, the first outcome of P[s][a] (probability 1 - slip)
\* is what step(a) does from s without a slip, the second (probability
\* slip) what it does with a slip; forward goes to min(s+1, n-1) with the
\* large reward at the end and 0 elsewhere, backward to 0 with the small
\* reward; and the step() just made is the outcome the table lists.
TableAgreesWithStep ==
    /\ \A s \in 0..(env.n - 1), a \in 0..1 :
          LET cell    == env.P[s][a]
              kept    == Move(s, a, env.n, env.small, env.large)
              slipped == Move(s, 1 - a, env.n, env.small, env.large)
              forward == <<IF s + 1 < env.n - 1 THEN s + 1 ELSE env.n - 1,
                           IF s = env.n - 1 THEN env.large ELSE 0>>
              back    == <<0, env.small>>
          IN  /\ cell[1] = <<4 - env.slip, kept.state, kept.reward, "None">>
              /\ cell[2] = <<env.slip, slipped.state, slipped.reward, "None">>
              /\ <<cell[1][2], cell[1][3]>> = (IF a = 0 THEN forward ELSE back)
              /\ <<cell[2][2], cell[2][3]>> = (IF a = 0 THEN back ELSE forward)
    /\ StepReturned =>
          LET o == env.P[frame.state][frame.arg]
                        [IF frame.action = frame.arg THEN 1 ELSE 2]
          IN  o[2] = env.state /\ o[3] = ret.reward

\* A backward request at the end of a chain of at least two states slipped
\* to forward, and the second outcome of the table lists what step() did.
TableAgreesWithStepWitness ==
    /\ StepReturned
    /\ env.n >= 2
    /\ frame.state = env.n - 1
    /\ frame.arg = 1
    /\ frame.action = 0
    /\ env.P[frame.state][1][2] = <<env.slip, env.state, ret.reward, "None">>
    /\ ret.reward = env.large

\* C13: after construction with max_iters >= 1, under any calls,
\* 0 <= self.iters <= max_iters.
StepCountInRange == env.iters \in 0..env.max_iters

\* The step that ended an episode of at least two steps put the counter
\* back to 0.
StepCountInRangeWitness ==
    /\ StepReturned
    /\ env.max_iters >= 2
    /\ ret.done
    /\ env.iters = 0

\* C14: seed(v), with or without a value, replaces only the generator:
\* self.state, self.iters and the configuration are unchanged, and the call
\* returns a one-element sequence holding the seed the new generator was
\* made from (the given value when there is one).
SeedOnlyGenerator ==
    [][frame'.op = "seed"
          => /\ env' = [env EXCEPT !.np_random = env'.np_random]
             /\ Len(ret'.seeds) = 1
             /\ env'.np_random = SeedingNpRandom(ret'.seeds[1])
             /\ "arg" \in DOMAIN frame' => ret'.seeds = <<frame'.arg>>]_vars

\* seed(v) returned [v] in the middle of an episode, away from state 0.
SeedOnlyGeneratorWitness ==
    /\ frame.op = "seed"
    /\ "arg" \in DOMAIN frame
    /\ ret.seeds = <<frame.arg>>
    /\ env.state > 0
    /\ env.iters > 0

\* C15: the table has a cell for every state in 0..n-1 and every action in
\* {0, 1}, every cell has exactly 2 outcomes, and their probabilities,
\* 1 - slip and slip, sum to 1 (4 quarters).
TableShape ==
    /\ DOMAIN env.P = 0..(env.n - 1)
    /\ \A s \in DOMAIN env.P :
          /\ DOMAIN env.P[s] = {0, 1}
          /\ \A a \in DOMAIN env.P[s] :
                /\ Len(env.P[s][a]) = 2
                /\ env.P[s][a][1][1] = 4 - env.slip
                /\ env.P[s][a][2][1] = env.slip
                /\ env.P[s][a][1][1] + env.P[s][a][2][1] = 4

\* A table of the longest chain with a slip probability of one quarter.
TableShapeWitness ==
    /\ env.n = MaxN
    /\ env.slip = 1
    /\ Cardinality(DOMAIN env.P) = MaxN
    /\ env.P[MaxN - 1][1][1][1] = 3
    /\ env.P[MaxN - 1][1][2][1] = 1

\* C16: in a valid step(a) the executed action is the opposite of a exactly
\* when the draw u is below slip, and a otherwise; with slip = 0 no draw in
\* [0, 1) slips and with slip = 1 (4 quarters) every draw does.
SlipRule ==
    StepReturned
        => /\ frame.u \in 0..3
           /\ frame.action = (IF frame.u < env.slip
                              THEN 1 - frame.arg ELSE frame.arg)
           /\ env.slip = 0 => frame.action = frame.arg
           /\ env.slip = 4 => frame.action = 1 - frame.arg

\* With slip = 1 the largest draw slipped a backward request to forward.
SlipRuleWitness ==
    /\ StepReturned
    /\ env.slip = 4
    /\ frame.u = 3
    /\ frame.arg = 1
    /\ frame.action = 0

\* C19: no call after construction changes n, slip, small, large,
\* max_iters or any cell of the table.
Config(self) ==
    <<self.n, self.slip, self.small, self.large, self.max_iters, self.P>>

ConfigFixed == [][Config(env') = Config(env)]_vars

\* An episode ended and the configuration still describes the table that
\* construction built.
ConfigFixedWitness ==
    /\ StepReturned
    /\ ret.done
    /\ env.state > 0
    /\ env.max_iters = MaxIters
    /\ env.P = BuildP(env.n, env.slip, env.small, env.large)

\* C12: with slip = 0, after reset() on a fresh environment whose max_iters
\* exceeds the number of calls, the k-th consecutive step(0) returns
\* observation min(k, n-1), reward 0 while it moves and the large reward at
\* the end of the chain, a following step(1) returns observation 0 and the
\* small reward, and every call returns done = False and an empty info.
\* (epCount is k for a step(0), the number of step() calls since reset().)
ScenarioOutputs ==
    StepReturned
        => /\ ret.done = FALSE
           /\ ret.info = << >>
           /\ frame.action = frame.arg
           /\ frame.arg = 0
                 => /\ ret.obs = (IF epCount < env.n - 1
                                  THEN epCount ELSE env.n - 1)
                    /\ ret.reward = (IF epCount <= env.n - 1
                                     THEN 0 ELSE env.large)
           /\ frame.arg = 1
                 => /\ ret.obs = 0
                    /\ ret.reward = env.small

\* The scenario of the spec: n = 5, small = 2, large = 10; the fifth
\* step(0) returned (4, 10, False, {}).
ScenarioOutputsWitness ==
    /\ env.n = 5 /\ env.small = 2 /\ env.large = 10
    /\ frame.op = "step"
    /\ frame.arg = 0
    /\ epCount = 5
    /\ ret = [op |-> "step", err |-> "ok", obs |-> 4, reward |-> 10,
              done |-> FALSE, info |-> << >>]

\* C17: the horizon counts the valid step() calls since construction and
\* ignores reset(): self.iters is that number modulo max_iters, so it lies
\* in 0..max_iters-1 between calls, and the k-th valid step() returns done
\* exactly when k is a multiple of max_iters.
HorizonCountsSteps ==
    /\ env.iters = hist.calls % env.max_iters
    /\ env.iters \in 0..(env.max_iters - 1)
    /\ StepReturned => (ret.done <=> hist.calls % env.max_iters = 0)

\* The second episode end came on call 2 * max_iters although a reset()
\* had been made inside that episode.
HorizonCountsStepsWitness ==
    /\ StepReturned
    /\ ret.done
    /\ env.max_iters >= 2
    /\ hist.calls = 2 * env.max_iters
    /\ epCount >= 1
    /\ epCount < env.max_iters

\* C18: every valid step() takes exactly one draw, reset() and a rejected
\* step() take none: after i valid step() calls since the generator was
\* seeded, the generator is the seeded one advanced i times, and the i-th
\* of those calls used the i-th draw of the seed's stream.
DrawsFollowStream ==
    /\ env.np_random = Advance(SeedingNpRandom(hist.seed), hist.used)
    /\ (StepReturned /\ hist.used >= 1)
          => frame.u = Rand(Advance(SeedingNpRandom(hist.seed),
                                    hist.used - 1)).u

\* A rejected step(2) was the last call after two valid ones, the second
\* of them made after a reset(); the generator stands after two draws.
DrawsFollowStreamWitness ==
    /\ frame.op = "step"
    /\ ret.err = "AssertionError"
    /\ hist.used = 2
    /\ hist.calls = 2
    /\ env.max_iters > 2
    /\ epCount = 1
    /\ env.np_random = Rand(Rand(SeedingNpRandom(hist.seed)).rng).rng

====
